---- MODULE Spec2Model ----
(***************************************************************************)
(* Model of chat.py: the interactive loop (main, get_user_input,           *)
(* multi_line_input), the request assembly, and the retry loop of          *)
(* do_chatbot_conversation_exchange with handle_error.                     *)
(*                                                                         *)
(* Text is a sequence of one-character strings, so that str.strip,         *)
(* str.replace and str.join are computed character by character.           *)
(* Python lists are objects on a heap: a variable holds a reference, and   *)
(* list.pop / list.append / += mutate the object the reference names.      *)
(***************************************************************************)
EXTENDS Integers, Sequences, FiniteSets, TLC

VARIABLES
    pc,            \* position of the single thread of control
    heap,          \* list objects: reference -> sequence of messages
    conversation,  \* the reference held by the local `conversation`
    template,      \* content of system_message.txt
    scratchpad,    \* content of scratchpad.txt
    text,          \* the local `text` of get_user_input / main
    lines,         \* the local `lines` of multi_line_input
    retry,         \* the loop variable of do_chatbot_conversation_exchange
    response,      \* (text, total_tokens) returned by the exchange
    exitStatus,    \* status passed to exit(), NoStatus while running
    entry,         \* envelope the exchange was entered with
    outcomes,      \* outcome of every get_response call of this exchange
    sent,          \* envelope passed to the latest get_response call
    sleeps         \* argument of every time.sleep call of this exchange

vars == <<pc, heap, conversation, template, scratchpad, text, lines, retry,
          response, exitStatus, entry, outcomes, sent, sleeps>>

----------------------------------------------------------------------------
(* Bounds of the model *)

MaxHistory == 3     \* a user message is accepted while the history is shorter
MaxLines == 2       \* lines accepted in one multi-line entry
MaxEnvHist == 7     \* longest history under the envelopes of SpecCtrl

----------------------------------------------------------------------------
(* Program constants *)

MODEL_MAX_TOKENS == 7500
max_retry == 7

END == <<"E", "N", "D">>
SCRATCHPAD == <<"S", "C", "R", "A", "T", "C", "H", "P", "A", "D">>
M == <<"M">>
PLACEHOLDER == <<"<", "<", "C", "O", "D", "E", ">", ">">>
NEWLINE == <<"\n">>
CONTEXT_MARK == <<"maximum", "context", "length">>

\* the list object app_state.ALL_MESSAGES names for the whole run
ALL_MESSAGES == "l0"

\* exit(0) of get_user_input, exit(1) of the exchange, and the status of an
\* interpreter that ends on an uncaught exception
QuitStatus == 0
FatalStatus == 1
UncaughtStatus == 1

NoStatus == -1
NoResponse == [text |-> <<>>, total_tokens |-> -1]

----------------------------------------------------------------------------
(* Inputs *)

\* str(error) of the exception get_response raises, as a sequence of words
ContextError == <<"This", "model's", "maximum", "context", "length", "is",
                  "8192", "tokens">>
RateError == <<"Rate", "limit", "reached">>
ContextErrors == {ContextError}
OtherErrors == {RateError}
ErrorMessages == ContextErrors \cup OtherErrors

\* what the user types at the main prompt
UserTexts == {<<"h", "i">>, <<"y", "o">>}
PromptInputs == UserTexts \cup {END, SCRATCHPAD, M, <<>>}

\* what the user types in multi-line mode (END ends the entry)
EntryLines == {<<"f", "o", "o">>, <<"b", "a", "r">>,
               <<"D", "O", "N", "E">>, <<" ">>}

\* what the service answers, and the usage it reports
ReplyTexts == {<<"o", "k">>}
TokenCounts == {7500, 7501}

\* system_message.txt
Templates == {<<"Y", " ">> \o PLACEHOLDER,
              <<"A">> \o PLACEHOLDER \o <<"B">>,
              <<"Z">>}

----------------------------------------------------------------------------
(* Pure functions *)

Message(role, content) == [role |-> role, content |-> content]

\* needle occurs in hay as a contiguous run ('x' in str(error))
Contains(hay, needle) ==
    \E i \in 1..(Len(hay) - Len(needle) + 1) :
        SubSeq(hay, i, i + Len(needle) - 1) = needle

\* str.replace(old, new): every non-overlapping occurrence, left to right
RECURSIVE Replace(_, _, _)
Replace(s, old, new) ==
    IF Len(s) < Len(old) THEN s
    ELSE IF SubSeq(s, 1, Len(old)) = old
         THEN new \o Replace(SubSeq(s, Len(old) + 1, Len(s)), old, new)
         ELSE <<Head(s)>> \o Replace(Tail(s), old, new)

\* str.join over a list of strings
RECURSIVE Join(_, _)
Join(ls, sep) ==
    IF Len(ls) = 0 THEN <<>>
    ELSE IF Len(ls) = 1 THEN ls[1]
    ELSE ls[1] \o sep \o Join(Tail(ls), sep)

RECURSIVE LStrip(_, _)
LStrip(s, chars) ==
    IF Len(s) > 0 /\ Head(s) \in chars THEN LStrip(Tail(s), chars) ELSE s

RECURSIVE RStrip(_, _)
RStrip(s, chars) ==
    IF Len(s) > 0 /\ s[Len(s)] \in chars
    THEN RStrip(SubSeq(s, 1, Len(s) - 1), chars) ELSE s

\* str.strip(chars): removes every leading and trailing character in chars
Strip(s, chars) == RStrip(LStrip(s, chars), chars)

Whitespace == {" ", "\n", "\t", "\r"}

\* text.strip('END').strip() of get_user_input
StripChars == {"E", "N", "D"}
ScratchpadContent(t) == Strip(Strip(t, StripChars), Whitespace)

\* open_file('system_message.txt').replace('<<CODE>>', open_file('scratchpad.txt'))
SystemMessageNoSubst(tmpl, pad) == tmpl
SystemMessage(tmpl, pad) == Replace(tmpl, PLACEHOLDER, pad)

\* 'maximum context length' in str(error)
IsContextLength(error) == Contains(error, CONTEXT_MARK)

\* wait_time = 2 ** retry * 5
WaitTimeLinear(r) == (r + 1) * 5
WaitTimeExponentFirst(r) == 2 ^ (r * 5)
WaitTime(r) == (2 ^ r) * 5

\* list.pop(0) on a non-empty list
PopNewest(s) == SubSeq(s, 1, Len(s) - 1)
PopOldest(s) == Tail(s)

\* tokens > app_state.MODEL_MAX_TOKENS
OverBudgetInclusive(tokens) == tokens >= MODEL_MAX_TOKENS
OverBudget(tokens) == tokens > MODEL_MAX_TOKENS

\* the comparisons of get_user_input
IsQuitLowerCase(t) == t = <<"e", "n", "d">>
IsQuit(t) == t = END
IsScratchpadKeywordLongOnly(t) == t = SCRATCHPAD
IsScratchpadKeyword(t) == t = SCRATCHPAD \/ t = M

\* conversation = list(): a list object other than the history
NewListAliased == ALL_MESSAGES
NewList == "l1"

\* handle_error(oops, conversation): the list the exchange was called with
ErrorConversationHistory == ALL_MESSAGES
ErrorConversation == conversation

History == heap[ALL_MESSAGES]
Conv == heap[conversation]

----------------------------------------------------------------------------
(* Initial state: the process has started and main is at its first prompt *)

Init ==
    /\ pc = "prompt"
    /\ heap = [l0 |-> <<>>, l1 |-> <<>>]
    /\ conversation = NewList
    /\ template \in Templates
    /\ scratchpad = <<>>
    /\ text = <<>>
    /\ lines = <<>>
    /\ retry = 0
    /\ response = NoResponse
    /\ exitStatus = NoStatus
    /\ entry = <<>>
    /\ outcomes = <<>>
    /\ sent = <<>>
    /\ sleeps = <<>>

----------------------------------------------------------------------------
(* The interactive loop *)

\* get_user_input and the dispatch of main on what it returned, up to the
\* append of the user message
GetUserInput(t) ==
    /\ pc = "prompt"
    /\ text' = t
    /\ IF IsQuit(t)
       THEN /\ pc' = "exit"
            /\ exitStatus' = QuitStatus
            /\ UNCHANGED <<heap, lines>>
       ELSE IF IsScratchpadKeyword(t)
       THEN /\ pc' = "multi"
            /\ lines' = <<>>
            /\ UNCHANGED <<heap, exitStatus>>
       ELSE IF t = <<>>
       THEN /\ pc' = "prompt"
            /\ UNCHANGED <<heap, lines, exitStatus>>
       ELSE /\ Len(History) < MaxHistory
            /\ heap' = [heap EXCEPT ![ALL_MESSAGES] = Append(@, Message("user", t))]
            /\ pc' = "build"
            /\ UNCHANGED <<lines, exitStatus>>
    /\ UNCHANGED <<conversation, template, scratchpad, retry, response,
                   entry, outcomes, sent, sleeps>>

\* multi_line_input: one line other than END is read and kept
ReadLine(l) ==
    /\ pc = "multi"
    /\ l # END
    /\ Len(lines) < MaxLines
    /\ lines' = Append(lines, l)
    /\ UNCHANGED <<pc, heap, conversation, template, scratchpad, text, retry,
                   response, exitStatus, entry, outcomes, sent, sleeps>>

\* multi_line_input reads END; get_user_input saves the scratchpad and
\* returns None; main continues with the next prompt
EndEntry ==
    /\ pc = "multi"
    /\ scratchpad' = ScratchpadContent(Join(lines, NEWLINE))
    /\ lines' = <<>>
    /\ text' = <<>>
    /\ pc' = "prompt"
    /\ UNCHANGED <<heap, conversation, template, retry, response, exitStatus,
                   entry, outcomes, sent, sleeps>>

\* main: the system message is read and the envelope is assembled
BuildRequest ==
    /\ pc = "build"
    /\ LET ref == NewList
           created == [heap EXCEPT ![ref] = <<>>]
           extended == [created EXCEPT ![ref] = @ \o created[ALL_MESSAGES]]
       IN /\ conversation' = ref
          /\ heap' = [extended EXCEPT ![ref] =
                        Append(@, Message("system",
                                          SystemMessage(template, scratchpad)))]
    /\ pc' = "call"
    /\ UNCHANGED <<template, scratchpad, text, lines, retry, response,
                   exitStatus, entry, outcomes, sent, sleeps>>

\* main after the exchange returned: the oldest message is dropped when the
\* reported usage is over the budget
TrimIfOverBudget ==
    /\ pc = "returned"
    /\ IF OverBudget(response.total_tokens)
       THEN IF Len(History) = 0
            THEN /\ pc' = "raised"
                 /\ exitStatus' = UncaughtStatus
                 /\ UNCHANGED heap
            ELSE /\ heap' = [heap EXCEPT ![ALL_MESSAGES] = PopOldest(@)]
                 /\ pc' = "reply"
                 /\ UNCHANGED exitStatus
       ELSE /\ pc' = "reply"
            /\ UNCHANGED <<heap, exitStatus>>
    /\ UNCHANGED <<conversation, template, scratchpad, text, lines, retry,
                   response, entry, outcomes, sent, sleeps>>

\* main: the reply is appended and printed; the turn is over, its locals and
\* its envelope are dead and the record of the exchange starts afresh
AppendReply ==
    /\ pc = "reply"
    /\ heap' = [heap EXCEPT ![ALL_MESSAGES] =
                                Append(@, Message("assistant", response.text)),
                            ![NewList] = <<>>]
    /\ conversation' = NewList
    /\ text' = <<>>
    /\ response' = NoResponse
    /\ retry' = 0
    /\ entry' = <<>>
    /\ outcomes' = <<>>
    /\ sent' = <<>>
    /\ sleeps' = <<>>
    /\ pc' = "prompt"
    /\ UNCHANGED <<template, scratchpad, lines, exitStatus>>

----------------------------------------------------------------------------
(* do_chatbot_conversation_exchange *)

\* the call: the request is logged and the loop starts with retry = 0
BeginExchange ==
    /\ pc = "call"
    /\ retry' = 0
    /\ entry' = Conv
    /\ outcomes' = <<>>
    /\ sent' = <<>>
    /\ sleeps' = <<>>
    /\ pc' = "ctrl"
    /\ UNCHANGED <<heap, conversation, template, scratchpad, text, lines,
                   response, exitStatus>>

\* one iteration whose get_response returns: the function returns
AttemptSucceeds(txt, tokens) ==
    /\ pc = "ctrl"
    /\ sent' = Conv
    /\ outcomes' = Append(outcomes, [ok |-> TRUE, error |-> <<>>])
    /\ response' = [text |-> txt, total_tokens |-> tokens]
    /\ pc' = "returned"
    /\ UNCHANGED <<heap, conversation, template, scratchpad, text, lines,
                   retry, exitStatus, entry, sleeps>>

NextIterationOneMore ==
    IF retry + 1 <= max_retry
    THEN /\ retry' = retry + 1
         /\ pc' = "ctrl"
         /\ UNCHANGED exitStatus
    ELSE /\ retry' = retry
         /\ pc' = "exit"
         /\ exitStatus' = FatalStatus

\* the for statement after an iteration that did not return: the next value
\* of range(max_retry), or the exit(1) after the loop
NextIteration ==
    IF retry + 1 < max_retry
    THEN /\ retry' = retry + 1
         /\ pc' = "ctrl"
         /\ UNCHANGED exitStatus
    ELSE /\ retry' = retry
         /\ pc' = "exit"
         /\ exitStatus' = FatalStatus

\* one iteration whose get_response raises error: handle_error, then either
\* the sleep or the continue
AttemptFails(error) ==
    /\ pc = "ctrl"
    /\ sent' = Conv
    /\ outcomes' = Append(outcomes, [ok |-> FALSE, error |-> error])
    /\ IF IsContextLength(error)
       THEN IF Len(heap[ErrorConversation]) = 0
            THEN /\ pc' = "raised"
                 /\ exitStatus' = UncaughtStatus
                 /\ UNCHANGED <<heap, retry, sleeps>>
            ELSE /\ heap' = [heap EXCEPT ![ErrorConversation] = PopOldest(@)]
                 /\ NextIteration
                 /\ UNCHANGED sleeps
       ELSE /\ sleeps' = Append(sleeps, WaitTime(retry))
            /\ NextIteration
            /\ UNCHANGED heap
    /\ UNCHANGED <<conversation, template, scratchpad, text, lines, response,
                   entry>>

----------------------------------------------------------------------------
(* The program *)

Next ==
    \/ \E t \in PromptInputs : GetUserInput(t)
    \/ \E l \in EntryLines : ReadLine(l)
    \/ EndEntry
    \/ BuildRequest
    \/ BeginExchange
    \/ \E txt \in ReplyTexts, tokens \in TokenCounts : AttemptSucceeds(txt, tokens)
    \/ \E error \in ErrorMessages : AttemptFails(error)
    \/ TrimIfOverBudget
    \/ AppendReply

Spec == Init /\ [][Next]_vars

----------------------------------------------------------------------------
(* The exchange alone, called with any envelope main can build *)

\* the histories main can hold when it calls the exchange: user and assistant
\* messages in turn, the last one the user message just entered
EntryHistories ==
    UNION {{h \in [1..n -> {Message("user", u) : u \in UserTexts}
                           \cup {Message("assistant", r) : r \in ReplyTexts}] :
              \A i \in 1..n :
                  h[i].role = IF (n - i) % 2 = 0 THEN "user" ELSE "assistant"}
           : n \in 1..MaxEnvHist}

InitCtrl ==
    /\ pc = "call"
    /\ template \in Templates
    /\ scratchpad = <<>>
    /\ \E h \in EntryHistories :
          /\ heap = [l0 |-> h,
                     l1 |-> Append(h, Message("system",
                                              SystemMessage(template, scratchpad)))]
          /\ text = h[Len(h)].content
    /\ conversation = NewList
    /\ lines = <<>>
    /\ retry = 0
    /\ response = NoResponse
    /\ exitStatus = NoStatus
    /\ entry = <<>>
    /\ outcomes = <<>>
    /\ sent = <<>>
    /\ sleeps = <<>>

NextCtrl ==
    \/ BeginExchange
    \/ \E txt \in ReplyTexts, tokens \in TokenCounts : AttemptSucceeds(txt, tokens)
    \/ \E error \in ErrorMessages : AttemptFails(error)

SpecCtrl == InitCtrl /\ [][NextCtrl]_vars

----------------------------------------------------------------------------
(* The program on a disk that can refuse a log file *)

\* str(error) of the OSError save_file raises, as a sequence of words
LogErrors == {<<"No", "space", "left", "on", "device">>}

\* the call when a request log cannot be written: save_json_log or
\* save_request_as_humanreadable_text raises before the loop, outside any try
BeginExchangeLogFails ==
    /\ pc = "call"
    /\ retry' = 0
    /\ entry' = Conv
    /\ outcomes' = <<>>
    /\ sent' = <<>>
    /\ sleeps' = <<>>
    /\ pc' = "raised"
    /\ exitStatus' = UncaughtStatus
    /\ UNCHANGED <<heap, conversation, template, scratchpad, text, lines,
                   response>>

\* one iteration whose get_response returns and whose response log cannot be
\* written: the OSError is raised inside the try, so it is handled as a
\* failure of the call
AttemptLogFails(error) ==
    /\ pc = "ctrl"
    /\ sent' = Conv
    /\ outcomes' = Append(outcomes, [ok |-> TRUE, error |-> error])
    /\ IF IsContextLength(error)
       THEN IF Len(heap[ErrorConversation]) = 0
            THEN /\ pc' = "raised"
                 /\ exitStatus' = UncaughtStatus
                 /\ UNCHANGED <<heap, retry, sleeps>>
            ELSE /\ heap' = [heap EXCEPT ![ErrorConversation] = PopOldest(@)]
                 /\ NextIteration
                 /\ UNCHANGED sleeps
       ELSE /\ sleeps' = Append(sleeps, WaitTime(retry))
            /\ NextIteration
            /\ UNCHANGED heap
    /\ UNCHANGED <<conversation, template, scratchpad, text, lines, response,
                   entry>>

NextLog ==
    \/ Next
    \/ BeginExchangeLogFails
    \/ \E error \in LogErrors : AttemptLogFails(error)

SpecLog == Init /\ [][NextLog]_vars

\* the exchange alone, every step of it taken in the end: a call to the
\* service returns or raises, and a sleep ends
SpecCtrlFair == SpecCtrl /\ WF_vars(NextCtrl)

----------------------------------------------------------------------------
(* Properties *)

\* the exchange has been entered and its record is that of the running turn
InExchange == pc \in {"ctrl", "returned", "reply", "exit", "raised"} /\ entry # <<>>

\* the first n calls of the exchange all failed with an error of the set
FirstFailed(n, errors) ==
    /\ n <= Len(outcomes)
    /\ \A i \in 1..n : ~outcomes[i].ok /\ outcomes[i].error \in errors

\* s without its first n elements
Drop(s, n) == SubSeq(s, n + 1, Len(s))

\* C1: an exchange ends by returning a result or by exiting the process; no
\* exception leaves do_chatbot_conversation_exchange.
C1_NoErrorReachesCaller ==
    (InExchange /\ pc # "ctrl") =>
        \/ pc \in {"returned", "reply"} /\ response # NoResponse
        \/ pc = "exit" /\ exitStatus = 1

\* C2: while every call has failed with a non-context-length error, the
\* sleeps requested are the first entries of 5, 10, 20, 40, 80, 160, 320, one
\* per failed call, nothing is returned, and the seventh failure, and only
\* the seventh, ends the process with status 1.
C2_AlwaysFailing ==
    (InExchange /\ outcomes # <<>> /\ FirstFailed(Len(outcomes), OtherErrors)) =>
        /\ Len(outcomes) <= 7
        /\ sleeps = SubSeq(<<5, 10, 20, 40, 80, 160, 320>>, 1, Len(outcomes))
        /\ response = NoResponse
        /\ IF Len(outcomes) = 7
           THEN pc = "exit" /\ exitStatus = 1
           ELSE pc = "ctrl" /\ exitStatus = NoStatus

C2_Witness ==
    /\ pc = "exit"
    /\ Len(outcomes) = 7
    /\ FirstFailed(7, OtherErrors)
    /\ sleeps = <<5, 10, 20, 40, 80, 160, 320>>

\* the statement of C3 for one N: after N context-length failures in a row
\* the exchange is about to call again, has not slept, and holds the entry
\* envelope without its first N messages; when that call succeeds the
\* exchange returns its result, and that envelope is the one it was sent
ShrinkThenSucceed(N) ==
    /\ (Len(outcomes) = N /\ FirstFailed(N, ContextErrors)) =>
          /\ pc = "ctrl"
          /\ sleeps = <<>>
          /\ Conv = Drop(entry, N)
    /\ (Len(outcomes) = N + 1 /\ FirstFailed(N, ContextErrors)
            /\ outcomes[N + 1].ok) =>
          /\ pc = "returned"
          /\ response # NoResponse
          /\ sleeps = <<>>
          /\ sent = Drop(entry, N)
          /\ Len(outcomes) <= 7

\* C3 as stated: for every N up to the number of messages of the envelope,
\* N context-length failures followed by a success end in a return without
\* a sleep, the successful call carrying the envelope less its first N.
C3_AnyNumberOfShrinks ==
    InExchange => \A N \in 0..Len(entry) : ShrinkThenSucceed(N)

\* C3 amended: the same for every N up to the number of messages of the
\* envelope and up to 6, the success being at the latest the seventh call.
C3_ShrinksWithinCeiling ==
    InExchange =>
        \A N \in 0..(IF Len(entry) < 6 THEN Len(entry) ELSE 6) :
            ShrinkThenSucceed(N)

C3_Witness ==
    /\ pc = "returned"
    /\ Len(outcomes) = 7
    /\ FirstFailed(6, ContextErrors)
    /\ sent = Drop(entry, 6)
    /\ Len(sent) >= 1

\* C4: the step of main that follows the return of the exchange removes the
\* oldest message of the history, and only it, when total_tokens is above
\* 7500, and leaves the history as it is otherwise.
C4_TrimOldestWhenOver ==
    [][pc = "returned" =>
          History' = IF response.total_tokens > 7500
                     THEN Drop(History, 1)
                     ELSE History]_vars

C4_Witness ==
    /\ pc = "reply"
    /\ response.total_tokens > 7500
    /\ Len(History) >= 2

\* C5: assembling the envelope leaves the history as it was, and the
\* envelope is a list other than the history.
C5_BuildKeepsHistory ==
    [][pc = "build" =>
          /\ History' = History
          /\ conversation' # ALL_MESSAGES
          /\ Len(heap'[conversation']) = Len(History) + 1]_vars

C5_Witness ==
    /\ pc = "call"
    /\ Len(History) >= 3
    /\ Len(Conv) = Len(History) + 1

\* the template with its placeholder, when it has one, replaced by pad
Substituted(tmpl, pad, content) ==
    LET Places == {i \in 1..(Len(tmpl) - Len(PLACEHOLDER) + 1) :
                      SubSeq(tmpl, i, i + Len(PLACEHOLDER) - 1) = PLACEHOLDER}
    IN IF Places = {}
       THEN content = tmpl
       ELSE \E i \in Places :
               content = SubSeq(tmpl, 1, i - 1) \o pad
                           \o SubSeq(tmpl, i + Len(PLACEHOLDER), Len(tmpl))

\* C6: the envelope the exchange is called with is the history, whose last
\* message is the user message just entered, followed by one system message
\* holding the template with the placeholder replaced by the scratchpad as
\* it is now.
C6_EnvelopeHandedOver ==
    (pc = "call" \/ (pc = "ctrl" /\ outcomes = <<>>)) =>
        LET envelope == IF pc = "call" THEN Conv ELSE entry
        IN /\ Len(History) >= 1
           /\ History[Len(History)] = Message("user", text)
           /\ Len(envelope) = Len(History) + 1
           /\ SubSeq(envelope, 1, Len(History)) = History
           /\ envelope[Len(envelope)].role = "system"
           /\ Substituted(template, scratchpad, envelope[Len(envelope)].content)

C6_Witness ==
    /\ pc = "ctrl"
    /\ outcomes = <<>>
    /\ Len(History) >= 3
    /\ scratchpad = <<"f", "o", "o", "\n", "b", "a", "r">>
    /\ entry[Len(entry)].content = <<"Y", " ", "f", "o", "o", "\n", "b", "a", "r">>

\* C7: no step of the exchange changes the history, whatever the failures.
C7_ExchangeKeepsHistory ==
    [][(pc = "call" \/ pc = "ctrl") => History' = History]_vars

C7_Witness ==
    /\ pc = "returned"
    /\ Len(outcomes) >= 3
    /\ FirstFailed(2, ContextErrors)
    /\ Len(History) >= 2

\* C8: END at the main prompt exits with status 0 and calls nothing.
C8_EndExits ==
    [][(pc = "prompt" /\ text' = END) =>
          /\ pc' = "exit"
          /\ exitStatus' = 0
          /\ outcomes' = outcomes
          /\ sent' = sent
          /\ History' = History]_vars

C8_Witness ==
    /\ pc = "exit"
    /\ exitStatus = 0
    /\ text = END
    /\ Len(History) >= 2
    /\ scratchpad # <<>>

\* C9: a turn that starts with SCRATCHPAD or M calls nothing, leaves the
\* history as it is, does not exit, and goes from the line entry back to the
\* main prompt.
C9_ScratchpadTurn ==
    [][((pc = "prompt" /\ text' \in {SCRATCHPAD, M}) \/ pc = "multi") =>
          /\ History' = History
          /\ outcomes' = outcomes
          /\ sent' = sent
          /\ exitStatus' = exitStatus
          /\ pc' = IF pc = "prompt" \/ Len(lines') > Len(lines)
                   THEN "multi" ELSE "prompt"]_vars

C9_Witness ==
    /\ pc = "prompt"
    /\ text = <<>>
    /\ scratchpad # <<>>
    /\ Len(History) >= 2

\* C10: when the line entry ends, the scratchpad holds the entered lines
\* joined by newlines, less leading and trailing whitespace only.
C10_ScratchpadIsJoinedLines ==
    [][(pc = "multi" /\ pc' = "prompt") =>
          scratchpad' = Strip(Join(lines, NEWLINE), Whitespace)]_vars

\* C11: a log file that cannot be written does not abort the exchange: no
\* error reaches the caller before the first call, and a call that succeeded
\* is the last call of the exchange, its result returned.
C11_LogFailureHarmless ==
    /\ (pc = "raised" => outcomes # <<>>)
    /\ \A i \in 1..Len(outcomes) :
          outcomes[i].ok =>
              /\ i = Len(outcomes)
              /\ pc \in {"returned", "reply"}
              /\ response # NoResponse

\* the calls of the exchange that failed with an error of the set
FailedWith(errors) ==
    {i \in 1..Len(outcomes) : ~outcomes[i].ok /\ outcomes[i].error \in errors}

\* the exchange has ended in the exit(1) that follows the loop
Fatal == InExchange /\ pc = "exit" /\ exitStatus = 1

C13_SentEnvelopeWellFormed ==
    (InExchange /\ outcomes # <<>>) =>
        /\ Len(sent) >= 1
        /\ sent[Len(sent)] = entry[Len(entry)]
        /\ sent[Len(sent)].role = "system"
        /\ \A i \in 1..(Len(sent) - 1) : sent[i].role # "system"

\* C14: every step leaves the history as it is, appends one user or
\* assistant message at its end, or removes its first element; so the
\* history is at all times a run of consecutive messages, in the order they
\* were appended, up to the latest one.
C14_AppendOrDropOldest ==
    [][\/ History' = History
       \/ \E m \in [role : {"user", "assistant"},
                    content : UserTexts \cup ReplyTexts] :
             History' = Append(History, m)
       \/ Len(History) >= 1 /\ History' = Drop(History, 1)]_vars

C14_Witness ==
    /\ pc = "build"
    /\ Len(History) = 2
    /\ History[1].role = "assistant"
    /\ History[2].role = "user"

\* C15: every message of the history has role user or assistant; the system
\* message is in the envelope only.
C15_NoSystemMessageStored ==
    /\ \A i \in 1..Len(History) : History[i].role \in {"user", "assistant"}
    /\ (pc \in {"call", "ctrl"} /\ Conv # <<>>) => Conv[Len(Conv)].role = "system"

C15_Witness ==
    /\ pc = "ctrl"
    /\ Len(History) = 3
    /\ Len(Conv) = 4
    /\ Conv[4].role = "system"
    /\ \A i \in 1..3 : History[i].role # "system"

\* the exchange is over: it returned, exited the process, or raised
Ended == pc \in {"returned", "exit", "raised"}

\* C16: an exchange never makes more than 7 calls, and once it is in its
\* loop it ends.
C16_EndsWithinSevenCalls ==
    /\ [](Len(outcomes) <= 7)
    /\ (pc = "ctrl") ~> Ended

C16_Witness ==
    /\ pc = "returned"
    /\ Len(outcomes) = 7
    /\ Cardinality(FailedWith(ContextErrors)) = 3
    /\ Cardinality(FailedWith(OtherErrors)) = 3

\* C17: the step that ends an exchange leaves the history longer than it
\* was before the user message of the exchange was entered (the envelope at
\* entry was that history, the user message and the system message): by 2
\* when total_tokens is at most 7500, by 1 when it is above, and the reply
\* of the exchange is its last element.
C17_HistoryGrowsPerExchange ==
    [][pc = "reply" =>
          LET before == Len(entry) - 2
          IN /\ Len(History') = before + (IF response.total_tokens > 7500
                                          THEN 1 ELSE 2)
             /\ Len(History') > before
             /\ History'[Len(History')] = Message("assistant", response.text)]_vars

C17_Witness ==
    /\ pc = "prompt"
    /\ Len(History) = 3
    /\ History[1].role = "assistant"
    /\ History[2].role = "user"
    /\ History[3].role = "assistant"

\* C18: when the exchange has returned, the history holds at least the user
\* message of the exchange, as its last element, so the removal of the
\* oldest message has a message to remove; no exception comes from it.
C18_TrimNeverOnEmpty ==
    /\ pc = "returned" =>
          /\ Len(History) >= 1
          /\ History[Len(History)] = Message("user", text)
    /\ pc = "raised" => response = NoResponse

C18_Witness ==
    /\ pc = "reply"
    /\ response.total_tokens > 7500
    /\ History = <<>>
    /\ Len(entry) = 2

\* the delays C19 states for a record of calls: 5 * 2^i for each 0-based
\* index i of a call that failed with a non-context-length error
RECURSIVE DelaysFor(_)
DelaysFor(os) ==
    IF os = <<>> THEN <<>>
    ELSE LET i == Len(os) - 1
             front == DelaysFor(SubSeq(os, 1, i))
         IN IF ~os[i + 1].ok /\ os[i + 1].error \in OtherErrors
            THEN Append(front, 5 * (2 ^ i))
            ELSE front

\* C19: the sleeps of an exchange are those delays, in order; they increase
\* strictly and each is one of 5, 10, 20, 40, 80, 160, 320.
C19_BackoffByAttemptIndex ==
    InExchange =>
        /\ sleeps = DelaysFor(outcomes)
        /\ \A j \in 1..Len(sleeps) : sleeps[j] \in {5, 10, 20, 40, 80, 160, 320}
        /\ \A j \in 1..(Len(sleeps) - 1) : sleeps[j] < sleeps[j + 1]

C19_Witness ==
    /\ pc = "returned"
    /\ sleeps = <<10, 40>>
    /\ Cardinality(FailedWith(ContextErrors)) = 2
    /\ Len(outcomes) = 5

====
